---- MODULE Spec2Model ----
(***************************************************************************)
(* aphie: a declarative command-line parser generator.  A schema (ordered  *)
(* fields with a declared type, a default and an alias) is turned into an  *)
(* argparse parser, the tokens are parsed into a flat raw mapping, and the *)
(* mapping is validated against the global schema and the schema of the    *)
(* selected subcommand.                                                    *)
(*                                                                         *)
(* The model follows src/src/aphie/main.py.  A process holds one schema    *)
(* configuration and calls parse_args up to MaxCalls times; every call     *)
(* runs build -> engine parse -> validation, one action per step.  The     *)
(* only state that outlives a call is the heap of default list objects     *)
(* the schema's FieldInfo.default attributes point to.                     *)
(***************************************************************************)
EXTENDS Naturals, Sequences, FiniteSets, TLC

(***************************************************************************)
(* Bounds.                                                                 *)
(***************************************************************************)
MaxTokens == 4
MaxCalls == 2

(***************************************************************************)
(* Values.  Every Python value is a record [k, v]: k is the kind, v the    *)
(* payload as a sequence of strings (a scalar is a one-element sequence).  *)
(* A default list object of a schema is held by reference: the namespace   *)
(* and FieldInfo.default share the object, its content lives in the heap.  *)
(***************************************************************************)
VBool(b) == [k |-> "bool", v |-> <<IF b THEN "True" ELSE "False">>]
VInt(s) == [k |-> "int", v |-> <<s>>]
VStr(s) == [k |-> "str", v |-> <<s>>]
VNone == [k |-> "NoneType", v |-> <<>>]
VList(kind, xs) == [k |-> kind, v |-> xs]
VRef(obj) == [k |-> "ref", v |-> <<obj>>]
PydanticUndefined == [k |-> "PydanticUndefinedType", v |-> <<>>]

NumericTokens == {"0", "1", "7"}

(***************************************************************************)
(* Declared types.  name is the type as a dictionary key, origin and args  *)
(* are what typing.get_origin and typing.get_args return for it.           *)
(***************************************************************************)
Plain(n) == [name |-> n, origin |-> "None", args |-> <<>>]
NoAnnotation == Plain("None")
TBool == Plain("bool")
TInt == Plain("int")
TStr == Plain("str")
TMultiple(t) == [name |-> "Multiple[" \o t \o "]", origin |-> "Multiple", args |-> <<t>>]
TUnion(a, b) == [name |-> a \o " | " \o b, origin |-> "UnionType", args |-> <<a, b>>]

get_origin(t) == t.origin
get_args(t) == t.args

Field(n, t, d, a) == [name |-> n, annotation |-> t, default |-> d, alias |-> a]
NoAlias == "None"

NoSubcommands == [given |-> FALSE, order |-> <<>>, models |-> <<>>]
NoModifiers == <<>>

(***************************************************************************)
(* Action classes.  A class is [cls, closure]: closure is the declared     *)
(* type captured by optional_action(t), and NoAnnotation for the others.   *)
(* StoreTrueAction is the caller's custom behaviour of the test suite.     *)
(***************************************************************************)
Cls(c) == [cls |-> c, closure |-> NoAnnotation]
optional_action(t) == [cls |-> "optional_action.aux", closure |-> t]
StoreAction == Cls("_StoreAction")
BooleanOptionalAction == Cls("BooleanOptionalAction")
MultipleAction == Cls("MultipleAction")
StoreTrueAction == Cls("StoreTrueAction")
AssertionError == Cls("AssertionError")

(* The built-in table of action_from_field_info. *)
BuiltinMods == ("bool" :> BooleanOptionalAction) @@ ("Multiple" :> MultipleAction)

(* {builtins} | dict(modifiers or {}): the right operand of | wins. *)
MergedMods(modifiers) == modifiers @@ BuiltinMods

(***************************************************************************)
(* action_from_field_info: the Action Resolver.  The union rule matches a  *)
(* two-member union whose SECOND member is NoneType, as the match pattern  *)
(* (_, types.NoneType) does.                                               *)
(***************************************************************************)
UnionPattern(origin, targs) ==
    /\ origin \in {"UnionType", "Union"}
    /\ Len(targs) = 2
    /\ targs[2] = "NoneType"

(* The resolver with its assertion stripped (python -O): an untyped field
   falls through to store. *)
action_from_field_info_unasserted(field, modifiers) ==
    LET mods == MergedMods(modifiers)
        ann == field.annotation
        origin == get_origin(ann)
        targs == get_args(ann)
    IN  IF ann.name \in DOMAIN mods THEN mods[ann.name]
        ELSE IF origin \in DOMAIN mods /\ origin # "None" THEN mods[origin]
        ELSE IF UnionPattern(origin, targs) THEN optional_action(ann)
        ELSE StoreAction

action_from_field_info(field, modifiers) ==
    LET mods == MergedMods(modifiers)
        ann == field.annotation
        origin == get_origin(ann)
        targs == get_args(ann)
    IN  IF ann = NoAnnotation THEN AssertionError
        ELSE IF ann.name \in DOMAIN mods THEN mods[ann.name]
        ELSE IF origin \in DOMAIN mods /\ origin # "None" THEN mods[origin]
        ELSE IF UnionPattern(origin, targs) THEN optional_action(ann)
        ELSE StoreAction

(***************************************************************************)
(* Option strings: f"--{name.replace('_', '-')}" and f"-{alias}".          *)
(***************************************************************************)
Replace(name) ==
    CASE name = "required_arg" -> "required-arg"
      [] OTHER -> name
LongOption(name) == "--" \o Replace(name)
ShortOption(alias) == "-" \o alias
NegatedOption(name) == "--no-" \o Replace(name)

(***************************************************************************)
(* parser.add_argument as add_model_to_parser calls it: the action class   *)
(* is instantiated (its __init__ fixes nargs and the converter) and        *)
(* argparse refuses a converter that is not callable with ValueError.      *)
(* nargs: "1" one token, "0" none, "?" zero or one, "+" one or more.       *)
(***************************************************************************)
Callable(t) == t.origin \notin {"UnionType"}

NoType == "None"

(* kwargs["type"] = field.annotation or str: str only for a falsy annotation. *)
ConverterFor(annotation) ==
    IF annotation = NoAnnotation THEN "str" ELSE annotation.name

add_argument(field, action) ==
    LET c == action.cls
        long == LongOption(field.name)
        alias == IF field.alias # NoAlias THEN {ShortOption(field.alias)} ELSE {}
        isStore == action = StoreAction
        bad == isStore /\ ~Callable(field.annotation)
    IN  [ error |-> IF bad THEN "ValueError" ELSE "None",
          dest |-> field.name,
          cls |-> c,
          option_strings |-> {long} \cup alias \cup
                (IF c = "BooleanOptionalAction" THEN {NegatedOption(field.name)} ELSE {}),
          nargs |-> CASE c = "BooleanOptionalAction" -> "0"
                      [] c = "MultipleAction" -> "+"
                      [] c = "optional_action.aux" -> "?"
                      [] OTHER -> "1",
          type |-> CASE isStore -> ConverterFor(field.annotation)
                     [] c = "optional_action.aux" -> get_args(action.closure)[1]
                     [] OTHER -> NoType,
          default |-> field.default,
          required |-> field.default = PydanticUndefined ]

(***************************************************************************)
(* add_model_to_parser: one argument per field, in the schema's order.     *)
(* The result is [error, args]: the first field that fails ends the build. *)
(***************************************************************************)
RECURSIVE add_fields(_, _, _)
add_fields(fields, actions, done) ==
    IF fields = <<>> THEN [error |-> "None", args |-> done]
    ELSE LET field == Head(fields)
             action == action_from_field_info(field, actions)
         IN  IF action = AssertionError
             THEN [error |-> "AssertionError", args |-> done]
             ELSE LET arg == add_argument(field, action)
                  IN  IF arg.error # "None"
                      THEN [error |-> arg.error, args |-> done]
                      ELSE add_fields(Tail(fields), actions, Append(done, arg))

add_model_to_parser(model, actions) == add_fields(model, actions, <<>>)

(***************************************************************************)
(* parser(g, subcommands, actions): the global schema is added WITHOUT the *)
(* caller's modifiers (line 137), every subcommand schema with them.       *)
(***************************************************************************)
RECURSIVE add_subparsers(_, _, _, _)
add_subparsers(order, models, actions, done) ==
    IF order = <<>> THEN [error |-> "None", subs |-> done]
    ELSE LET c == Head(order)
             p == add_model_to_parser(models[c], actions)
         IN  IF p.error # "None" THEN [error |-> p.error, subs |-> done]
             ELSE add_subparsers(Tail(order), models, actions, done @@ (c :> p.args))

GlobalModifiers(actions) == NoModifiers

parser(g, subcommands, actions) ==
    LET main == add_model_to_parser(g, GlobalModifiers(actions))
    IN  IF main.error # "None"
        THEN [error |-> main.error, main |-> <<>>, hasSub |-> FALSE, subs |-> <<>>]
        ELSE IF ~subcommands.given
        THEN [error |-> "None", main |-> main.args, hasSub |-> FALSE, subs |-> <<>>]
        ELSE LET sp == add_subparsers(subcommands.order, subcommands.models, actions, <<>>)
             IN  [error |-> sp.error, main |-> main.args, hasSub |-> TRUE, subs |-> sp.subs]

(***************************************************************************)
(* Schema configurations a process may hold: those of the test suite and   *)
(* the shapes the resolver distinguishes.  alphabet is the set of tokens   *)
(* the command line is drawn from.  A list default is one shared object.   *)
(***************************************************************************)
Subcommands(order, models) == [given |-> TRUE, order |-> order, models |-> models]

Config(id, g, subcommands, actions, alphabet) ==
    [id |-> id, g |-> g, subcommands |-> subcommands, actions |-> actions,
     alphabet |-> alphabet]

CustomBool == "bool" :> StoreTrueAction

SimpleGlobal ==
    Config("simple_global_args",
           << Field("verbose", TBool, VBool(FALSE), NoAlias),
              Field("level", TInt, VInt("0"), "l") >>,
           NoSubcommands, NoModifiers,
           {"--verbose", "--no-verbose", "-l", "7", "a"})

RequiredMissing ==
    Config("required_argument_missing",
           << Field("required_arg", TStr, PydanticUndefined, NoAlias) >>,
           NoSubcommands, NoModifiers,
           {"--required-arg", "a", "--bogus"})

CustomAction ==
    Config("custom_action",
           << Field("custom", TBool, VBool(FALSE), NoAlias) >>,
           NoSubcommands, CustomBool,
           {"--custom", "--no-custom", "1"})

CustomSubcommand ==
    Config("custom_action_subcommand",
           << Field("verbose", TBool, VBool(FALSE), NoAlias) >>,
           Subcommands(<<"run">>,
               "run" :> << Field("custom", TBool, VBool(FALSE), NoAlias) >>),
           CustomBool,
           {"--verbose", "run", "--custom", "1"})

MultipleRequired ==
    Config("multiple_occurrences_extend",
           << Field("tags", TMultiple("str"), PydanticUndefined, NoAlias) >>,
           NoSubcommands, NoModifiers,
           {"--tags", "a", "b"})

MultipleDefaultEmpty ==
    Config("multiple_defaults_empty",
           << Field("files", TMultiple("str"), VRef("GlobalArgs.files"), NoAlias) >>,
           NoSubcommands, NoModifiers,
           {"--files", "a", "b"})

MultipleInts ==
    Config("multiple_ints",
           << Field("numbers", TMultiple("int"), PydanticUndefined, NoAlias) >>,
           NoSubcommands, NoModifiers,
           {"--numbers", "7", "a"})

OptionalAlias ==
    Config("optional_alias",
           << Field("string", TUnion("str", "NoneType"), VNone, "s") >>,
           NoSubcommands, NoModifiers,
           {"--string", "-s", "a"})

OptionalNoneFirst ==
    Config("optional_none_first",
           << Field("string", TUnion("NoneType", "str"), VNone, "s") >>,
           NoSubcommands, NoModifiers,
           {"--string", "-s", "a"})

UnionStore ==
    Config("union_store",
           << Field("value", TUnion("int", "str"), VInt("0"), NoAlias) >>,
           NoSubcommands, NoModifiers,
           {"--value", "7", "a"})

WithSubcommand ==
    Config("with_subcommand",
           << Field("verbose", TBool, VBool(FALSE), NoAlias) >>,
           Subcommands(<<"run", "build">>,
               ("run" :> << Field("name", TStr, PydanticUndefined, NoAlias),
                            Field("count", TInt, VInt("1"), NoAlias) >>) @@
               ("build" :> << Field("count", TInt, VInt("0"), NoAlias) >>)),
           NoModifiers,
           {"--verbose", "run", "build", "--name", "7"})

SharedNames ==
    Config("shared_names",
           << Field("verbose", TBool, VBool(FALSE), NoAlias),
              Field("level", TInt, VInt("0"), NoAlias) >>,
           Subcommands(<<"run">>,
               "run" :> << Field("verbose", TBool, VBool(FALSE), NoAlias),
                           Field("level", TInt, VInt("1"), NoAlias) >>),
           NoModifiers,
           {"--verbose", "--level", "7", "run"})

AbsentAnnotation ==
    Config("absent_annotation",
           << Field("verbose", TBool, VBool(FALSE), NoAlias),
              Field("broken", NoAnnotation, VNone, NoAlias) >>,
           NoSubcommands, NoModifiers,
           {"--verbose", "--broken", "a"})

AbsentAnnotationSubcommand ==
    Config("absent_annotation_subcommand",
           << Field("verbose", TBool, VBool(FALSE), NoAlias) >>,
           Subcommands(<<"run", "build">>,
               ("run" :> << Field("name", TStr, VStr("d"), NoAlias) >>) @@
               ("build" :> << Field("broken", NoAnnotation, VNone, NoAlias) >>)),
           NoModifiers,
           {"--verbose", "run", "--name", "a"})

Configurations ==
    { SimpleGlobal, RequiredMissing, CustomAction, CustomSubcommand,
      MultipleRequired, MultipleDefaultEmpty, MultipleInts, OptionalAlias,
      OptionalNoneFirst, UnionStore, WithSubcommand, SharedNames,
      AbsentAnnotation, AbsentAnnotationSubcommand }

(* The default list objects the schemas declare, each declared empty. *)
DeclaredHeap == "GlobalArgs.files" :> <<>>

(* The tokens that start with "-". *)
FieldNames ==
    {"verbose", "level", "required_arg", "custom", "tags", "files", "numbers",
     "string", "value", "name", "count", "broken", "bogus"}
Aliases == {"l", "s"}
DashTokens ==
    {LongOption(n) : n \in FieldNames} \cup {NegatedOption(n) : n \in FieldNames}
        \cup {ShortOption(a) : a \in Aliases}

RECURSIVE SeqsUpTo(_, _)
SeqsUpTo(S, n) ==
    IF n = 0 THEN {<<>>}
    ELSE LET shorter == SeqsUpTo(S, n - 1)
         IN  shorter \cup {Append(q, x) : q \in shorter, x \in S}

TokenSeqs(alphabet) == SeqsUpTo(alphabet, MaxTokens)

(***************************************************************************)
(* The parsing engine (argparse) as parse_args drives it.                  *)
(***************************************************************************)
(* The number of tokens from index i on that do not start with "-". *)
RECURSIVE PlainRun(_, _)
PlainRun(toks, i) ==
    IF i > Len(toks) \/ toks[i] \in DashTokens THEN 0
    ELSE 1 + PlainRun(toks, i + 1)

(* How many of the n available tokens an option of this nargs takes. *)
ArgCount(nargs, n) ==
    CASE nargs = "0" -> [ok |-> TRUE, count |-> 0]
      [] nargs = "1" -> [ok |-> n >= 1, count |-> 1]
      [] nargs = "?" -> [ok |-> TRUE, count |-> IF n >= 1 THEN 1 ELSE 0]
      [] nargs = "+" -> [ok |-> n >= 1, count |-> n]

(* The converter of an argument applied to one token. *)
get_value(type, tok) ==
    CASE type \in {NoType, "str"} -> [ok |-> TRUE, val |-> VStr(tok)]
      [] type = "int" -> [ok |-> tok \in NumericTokens, val |-> VInt(tok)]
      [] OTHER -> [ok |-> FALSE, val |-> VNone]

(* option_string.startswith("--no-") in BooleanOptionalAction.__call__. *)
StartsWithNo(tok) == tok \in {NegatedOption(n) : n \in FieldNames}

(* MultipleAction.__call__: extend the list the namespace holds, in place. *)
MultipleCall(dest, ns, hp, values) ==
    LET current == ns[dest]
    IN  IF current \in {VNone, PydanticUndefined}
        THEN [ns |-> [ns EXCEPT ![dest] = VList("list", values)], heap |-> hp]
        ELSE IF current.k = "ref"
        THEN [ns |-> ns,
              heap |-> [hp EXCEPT ![current.v[1]] = hp[current.v[1]] \o values]]
        ELSE [ns |-> [ns EXCEPT ![dest] = VList("list", current.v \o values)],
              heap |-> hp]

(* The __call__ of an argument's action: the namespace and heap after it. *)
ActionCall(a, ns, hp, option_string, values) ==
    CASE a.cls = "BooleanOptionalAction" ->
            [ns |-> [ns EXCEPT ![a.dest] = VBool(~StartsWithNo(option_string))],
             heap |-> hp]
      [] a.cls = "MultipleAction" ->
            MultipleCall(a.dest, ns, hp, [i \in 1..Len(values) |-> values[i].v[1]])
      [] a.cls = "optional_action.aux" ->
            [ns |-> [ns EXCEPT ![a.dest] = IF values = <<>> THEN VNone ELSE values[1]],
             heap |-> hp]
      [] a.cls = "StoreTrueAction" ->
            [ns |-> [ns EXCEPT ![a.dest] = VBool(TRUE)], heap |-> hp]
      [] OTHER ->
            [ns |-> [ns EXCEPT ![a.dest] = values[1]], heap |-> hp]

(* The defaults parse_known_args puts in a fresh namespace. *)
Defaults(arguments) ==
    [d \in {arguments[i].dest : i \in DOMAIN arguments} |->
        (CHOOSE a \in {arguments[i] : i \in DOMAIN arguments} : a.dest = d).default]

Missing(arguments, level, seen) ==
    \E i \in DOMAIN arguments :
        arguments[i].required /\ [p |-> level, dest |-> arguments[i].dest] \notin seen

(***************************************************************************)
(* The schema system (pydantic) as parse_args calls it: model_validate     *)
(* reads the keys the schema declares, ignores the others, coerces in lax  *)
(* mode and returns a new object (a copy of a list, never the list).       *)
(***************************************************************************)
Deref(val, hp) == IF val.k = "ref" THEN VList("list", hp[val.v[1]]) ELSE val

ValidateScalar(t, val) ==
    CASE t = "NoneType" -> [ok |-> val = VNone, val |-> val]
      [] t = "bool" -> [ok |-> val.k = "bool", val |-> val]
      [] t = "str" -> [ok |-> val.k = "str", val |-> val]
      [] t = "int" ->
            IF val.k = "int" THEN [ok |-> TRUE, val |-> val]
            ELSE [ok |-> val.k = "str" /\ val.v[1] \in NumericTokens,
                  val |-> VInt(IF val.v = <<>> THEN "" ELSE val.v[1])]
      [] OTHER -> [ok |-> FALSE, val |-> val]

Validate(ann, val) ==
    CASE ann.origin = "Multiple" ->
            [ok |-> /\ val.k = "list"
                    /\ \A i \in DOMAIN val.v :
                          ValidateScalar(ann.args[1], VStr(val.v[i])).ok,
             val |-> VList("list[" \o ann.args[1] \o "]", val.v)]
      [] ann.origin = "UnionType" ->
            IF \E i \in DOMAIN ann.args : ValidateScalar(ann.args[i], val).ok
            THEN ValidateScalar(
                    ann.args[CHOOSE i \in DOMAIN ann.args :
                        /\ ValidateScalar(ann.args[i], val).ok
                        /\ \A j \in 1..(i - 1) : ~ValidateScalar(ann.args[j], val).ok],
                    val)
            ELSE [ok |-> FALSE, val |-> val]
      [] OTHER -> ValidateScalar(ann.name, val)

FieldValue(f, mapping, hp) ==
    IF f.name \in DOMAIN mapping THEN Validate(f.annotation, Deref(mapping[f.name], hp))
    ELSE [ok |-> f.default # PydanticUndefined, val |-> Deref(f.default, hp)]

model_validate(model, mapping, hp) ==
    [ok |-> \A i \in DOMAIN model : FieldValue(model[i], mapping, hp).ok,
     value |-> [n \in {model[i].name : i \in DOMAIN model} |->
                  FieldValue(CHOOSE f \in {model[i] : i \in DOMAIN model} : f.name = n,
                             mapping, hp).val]]

(***************************************************************************)
(* State.                                                                  *)
(***************************************************************************)
VARIABLES
    config,          \* the schemas, modifiers and alphabet of the process
    heap,            \* content of the schemas' default list objects
    calls,           \* parse_args invocations started
    pc,              \* idle | build | parse | tokens | parsed | validate_global | terminated
    args,            \* the tokens of the current invocation
    engine,          \* the parser built by parser(g, subcommands, actions)
    pos,             \* index of the next token
    level,           \* main | sub | back (the subparser returned)
    parser_name,     \* the token the subparsers action selected
    namespace,       \* the engine's namespace, then parsed
    subns,           \* the subparser's own namespace
    seen,            \* the actions that fired, per parser
    extras,          \* an unrecognized argument was met
    command,         \* what parsed.pop("command") returned
    sub_input,       \* the mapping handed to the subcommand schema
    global_input,    \* the mapping handed to the global schema
    subcommand_args, \* <<>> is None, else <<validated object>>
    global_args,
    outcome,         \* None | returned | the error that ended the process
    previous,        \* the result of the invocation before, when it had the same tokens
    resolve_field,     \* a field handed to action_from_field_info on its own
    resolve_modifiers, \* the modifiers handed with it
    resolve_result     \* <<>> before the call, <<the action class>> after

vars ==
    << config, heap, calls, pc, args, engine, pos, level, parser_name, namespace,
       subns, seen, extras, command, sub_input, global_input, subcommand_args,
       global_args, outcome, previous, resolve_field, resolve_modifiers,
       resolve_result >>

resolver == << resolve_field, resolve_modifiers, resolve_result >>

locals ==
    << engine, pos, level, parser_name, namespace, subns, seen, extras, command,
       sub_input, global_input, subcommand_args, global_args >>

NoEngine == [error |-> "None", main |-> <<>>, hasSub |-> FALSE, subs |-> <<>>]

Fresh ==
    /\ engine = NoEngine
    /\ pos = 1
    /\ level = "main"
    /\ parser_name = "None"
    /\ namespace = <<>>
    /\ subns = <<>>
    /\ seen = {}
    /\ extras = FALSE
    /\ command = VNone
    /\ sub_input = <<>>
    /\ global_input = <<>>
    /\ subcommand_args = <<>>
    /\ global_args = <<>>

Result == [global |-> global_args, subcommand |-> subcommand_args]

Init ==
    /\ config \in Configurations
    /\ heap = DeclaredHeap
    /\ calls = 0
    /\ pc = "idle"
    /\ args = <<>>
    /\ outcome = "None"
    /\ previous = <<>>
    /\ Fresh
    /\ resolve_field = Field("verbose", TBool, VBool(FALSE), NoAlias)
    /\ resolve_modifiers = NoModifiers
    /\ resolve_result = <<>>

Terminate(error) ==
    /\ pc' = "terminated"
    /\ outcome' = error

(***************************************************************************)
(* parse_args, one action per step.                                        *)
(***************************************************************************)
(* A caller invokes parse_args(g, subcommands, args=toks, actions=actions). *)
Call(toks) ==
    /\ pc = "idle"
    /\ calls < MaxCalls
    /\ calls' = calls + 1
    /\ args' = toks
    /\ previous' = IF outcome = "returned" /\ toks = args THEN <<Result>> ELSE <<>>
    /\ outcome' = "None"
    /\ pc' = "build"
    /\ engine' = NoEngine
    /\ pos' = 1
    /\ level' = "main"
    /\ parser_name' = "None"
    /\ namespace' = <<>>
    /\ subns' = <<>>
    /\ seen' = {}
    /\ extras' = FALSE
    /\ command' = VNone
    /\ sub_input' = <<>>
    /\ global_input' = <<>>
    /\ subcommand_args' = <<>>
    /\ global_args' = <<>>
    /\ UNCHANGED <<resolver, config, heap>>

(* line 175, parser(g, subcommands, actions): a failure ends the call. *)
BuildParser ==
    /\ pc = "build"
    /\ LET p == parser(config.g, config.subcommands, config.actions)
       IN  /\ engine' = p
           /\ IF p.error # "None" THEN Terminate(p.error)
              ELSE pc' = "parse" /\ UNCHANGED outcome
    /\ UNCHANGED <<resolver, config, heap, calls, args, pos, level, parser_name, namespace,
                   subns, seen, extras, command, sub_input, global_input,
                   subcommand_args, global_args, previous>>

(* line 175, .parse_args(args): the namespace gets every argument's default. *)
ParseArgsStart ==
    /\ pc = "parse"
    /\ namespace' = IF engine.hasSub
                    THEN Defaults(engine.main) @@ ("command" :> VNone)
                    ELSE Defaults(engine.main)
    /\ pc' = "tokens"
    /\ UNCHANGED <<resolver, config, heap, calls, args, engine, pos, level, parser_name,
                   subns, seen, extras, command, sub_input, global_input,
                   subcommand_args, global_args, outcome, previous>>

Arguments == IF level = "sub" THEN engine.subs[parser_name] ELSE engine.main
Known(tok) == \E i \in DOMAIN Arguments : tok \in Arguments[i].option_strings
ArgumentOf(tok) ==
    Arguments[CHOOSE i \in DOMAIN Arguments : tok \in Arguments[i].option_strings]

(* An option string of the current parser: its action takes its tokens. *)
ConsumeOptional ==
    /\ pc = "tokens"
    /\ level \in {"main", "sub"}
    /\ pos <= Len(args)
    /\ Known(args[pos])
    /\ LET a == ArgumentOf(args[pos])
           n == ArgCount(a.nargs, PlainRun(args, pos + 1))
           vals == [i \in 1..n.count |-> get_value(a.type, args[pos + i])]
           converted == \A i \in DOMAIN vals : vals[i].ok
           values == [i \in DOMAIN vals |-> vals[i].val]
           ns == IF level = "sub" THEN subns ELSE namespace
           after == ActionCall(a, ns, heap, args[pos], values)
       IN  IF ~n.ok \/ ~converted
           THEN /\ Terminate("SystemExit")
                /\ UNCHANGED <<heap, pos, namespace, subns, seen>>
           ELSE /\ heap' = after.heap
                /\ IF level = "sub"
                   THEN subns' = after.ns /\ UNCHANGED namespace
                   ELSE namespace' = after.ns /\ UNCHANGED subns
                /\ pos' = pos + 1 + n.count
                /\ seen' = seen \cup {[p |-> level, dest |-> a.dest]}
                /\ UNCHANGED <<pc, outcome>>
    /\ UNCHANGED <<resolver, config, calls, args, engine, level, parser_name, extras, command,
                   sub_input, global_input, subcommand_args, global_args, previous>>

(* The subparsers action: the first plain token of the main parser names the
   command, and the rest of the tokens go to that command's parser. *)
ConsumeCommand ==
    /\ pc = "tokens"
    /\ level = "main"
    /\ engine.hasSub
    /\ pos <= Len(args)
    /\ args[pos] \notin DashTokens
    /\ IF args[pos] \notin DOMAIN engine.subs
       THEN /\ Terminate("SystemExit")
            /\ UNCHANGED <<pos, level, parser_name, namespace, subns, seen>>
       ELSE /\ namespace' = [namespace EXCEPT !["command"] = VStr(args[pos])]
            /\ parser_name' = args[pos]
            /\ subns' = Defaults(engine.subs[args[pos]])
            /\ level' = "sub"
            /\ pos' = pos + 1
            /\ seen' = seen \cup {[p |-> "main", dest |-> "command"]}
            /\ UNCHANGED <<pc, outcome>>
    /\ UNCHANGED <<resolver, config, heap, calls, args, engine, extras, command, sub_input,
                   global_input, subcommand_args, global_args, previous>>

(* A token no argument of the current parser takes is kept as an extra. *)
ConsumeUnrecognized ==
    /\ pc = "tokens"
    /\ level \in {"main", "sub"}
    /\ pos <= Len(args)
    /\ ~Known(args[pos])
    /\ args[pos] \in DashTokens \/ level = "sub" \/ ~engine.hasSub
    /\ extras' = TRUE
    /\ pos' = pos + 1
    /\ UNCHANGED <<resolver, config, heap, calls, pc, args, engine, level, parser_name,
                   namespace, subns, seen, command, sub_input, global_input,
                   subcommand_args, global_args, outcome, previous>>

(* The subparser is done: it checks its required arguments and its namespace
   is copied, key by key, over the main parser's namespace. *)
SubparserReturn ==
    /\ pc = "tokens"
    /\ level = "sub"
    /\ pos > Len(args)
    /\ IF Missing(engine.subs[parser_name], "sub", seen)
       THEN /\ Terminate("SystemExit")
            /\ UNCHANGED <<level, namespace>>
       ELSE /\ namespace' = subns @@ namespace
            /\ level' = "back"
            /\ UNCHANGED <<pc, outcome>>
    /\ UNCHANGED <<resolver, config, heap, calls, args, engine, pos, parser_name, subns, seen,
                   extras, command, sub_input, global_input, subcommand_args,
                   global_args, previous>>

(* The main parser is done: a missing required argument, a missing command or
   an extra is the engine's fatal exit. *)
ParseArgsFinish ==
    /\ pc = "tokens"
    /\ level \in {"main", "back"}
    /\ pos > Len(args)
    /\ IF \/ Missing(engine.main, "main", seen)
          \/ engine.hasSub /\ [p |-> "main", dest |-> "command"] \notin seen
          \/ extras
       THEN Terminate("SystemExit")
       ELSE pc' = "parsed" /\ UNCHANGED outcome
    /\ UNCHANGED <<resolver, config, heap, calls, args, engine, pos, level, parser_name,
                   namespace, subns, seen, extras, command, sub_input, global_input,
                   subcommand_args, global_args, previous>>

(* parsed.get("command") in place of parsed.pop("command"): the key stays. *)
WithoutPop(mapping, key) == mapping

Without(mapping, key) == [k \in DOMAIN mapping \ {key} |-> mapping[k]]

(* lines 177-180: pop the command and validate against its schema. *)
ValidateSubcommand ==
    /\ pc = "parsed"
    /\ IF ~config.subcommands.given
       THEN /\ pc' = "validate_global"
            /\ UNCHANGED <<namespace, command, sub_input, subcommand_args, outcome>>
       ELSE LET popped == namespace["command"]
                parsed == Without(namespace, "command")
                known == popped.k = "str" /\ popped.v[1] \in DOMAIN config.subcommands.models
                r == model_validate(config.subcommands.models[popped.v[1]], parsed, heap)
            IN  /\ command' = popped
                /\ namespace' = parsed
                /\ IF ~known
                   THEN /\ Terminate("KeyError")
                        /\ UNCHANGED <<sub_input, subcommand_args>>
                   ELSE /\ sub_input' = <<parsed>>
                        /\ IF r.ok
                           THEN /\ subcommand_args' = <<r.value>>
                                /\ pc' = "validate_global"
                                /\ UNCHANGED outcome
                           ELSE /\ Terminate("ValidationError")
                                /\ UNCHANGED subcommand_args
    /\ UNCHANGED <<resolver, config, heap, calls, args, engine, pos, level, parser_name, subns,
                   seen, extras, global_input, global_args, previous>>

(* lines 182-183: validate against the global schema and return the pair. *)
ValidateGlobal ==
    /\ pc = "validate_global"
    /\ global_input' = <<namespace>>
    /\ LET r == model_validate(config.g, namespace, heap)
       IN  IF r.ok
           THEN /\ global_args' = <<r.value>>
                /\ pc' = "idle"
                /\ outcome' = "returned"
           ELSE /\ Terminate("ValidationError")
                /\ UNCHANGED global_args
    /\ UNCHANGED <<resolver, config, heap, calls, args, engine, pos, level, parser_name,
                   namespace, subns, seen, extras, command, sub_input,
                   subcommand_args, previous>>

Invoke ==
    /\ pc = "idle"
    /\ calls < MaxCalls
    /\ \E toks \in TokenSeqs(config.alphabet) : Call(toks)

Next ==
    \/ Invoke
    \/ BuildParser
    \/ ParseArgsStart
    \/ ConsumeOptional
    \/ ConsumeCommand
    \/ ConsumeUnrecognized
    \/ SubparserReturn
    \/ ParseArgsFinish
    \/ ValidateSubcommand
    \/ ValidateGlobal

Spec == Init /\ [][Next]_vars

(***************************************************************************)
(* The Action Resolver on its own: action_from_field_info applied to one   *)
(* field and one modifiers mapping, over the type shapes it distinguishes. *)
(***************************************************************************)
ResolveTypes ==
    { TBool, TInt, TStr, TMultiple("str"), TMultiple("int"),
      TUnion("str", "NoneType"), TUnion("NoneType", "str"),
      TUnion("int", "NoneType"), TUnion("NoneType", "int"),
      TUnion("int", "str"),
      [name |-> "Optional[str]", origin |-> "Union", args |-> <<"str", "NoneType">>],
      [name |-> "int | str | NoneType", origin |-> "UnionType",
       args |-> <<"int", "str", "NoneType">>] }

ModifierKeys == {"bool", "int", "Multiple", "UnionType", "str | NoneType"}

ModifierMappings ==
    UNION { [keys -> {StoreTrueAction, StoreAction}] : keys \in SUBSET ModifierKeys }

ResolveInit ==
    /\ config = SimpleGlobal
    /\ heap = DeclaredHeap
    /\ calls = 0
    /\ pc = "idle"
    /\ args = <<>>
    /\ outcome = "None"
    /\ previous = <<>>
    /\ Fresh
    /\ resolve_field \in {Field("f", t, VNone, NoAlias) : t \in ResolveTypes}
    /\ resolve_modifiers \in ModifierMappings
    /\ resolve_result = <<>>

Resolve ==
    /\ resolve_result = <<>>
    /\ resolve_result' = <<action_from_field_info(resolve_field, resolve_modifiers)>>
    /\ UNCHANGED <<config, heap, calls, pc, args, outcome, previous, locals,
                   resolve_field, resolve_modifiers>>

ResolveNext == Resolve

SpecResolve == ResolveInit /\ [][ResolveNext]_vars

(***************************************************************************)
(* Properties.                                                             *)
(***************************************************************************)
Built == engine # NoEngine
Returned == outcome = "returned"
Models == config.subcommands.models
GlobalValue(name) == global_args[1][name]
SubValue(name) == subcommand_args[1][name]

(* Every argument registered for a schema whose field's declared type is a
   key of the caller's modifiers has the caller's action class. *)
CallerEntryRegistered(model, arguments) ==
    \A i \in DOMAIN model :
        model[i].annotation.name \in DOMAIN config.actions =>
            /\ i \in DOMAIN arguments
            /\ arguments[i].cls = config.actions[model[i].annotation.name].cls

(* C1: once the parser is built, every field of the global schema and of
   every subcommand schema whose declared type is a key of the caller's
   modifiers is registered with the caller's behaviour, not the built-in. *)
C1_CallerModifierOverridesBuiltin ==
    (Built /\ engine.error = "None") =>
        /\ CallerEntryRegistered(config.g, engine.main)
        /\ \A c \in DOMAIN engine.subs : CallerEntryRegistered(Models[c], engine.subs[c])

(* C2: an invocation that follows one with the same schema and the same
   tokens returns the same result pair. *)
C2_SameTokensSameResult ==
    (Returned /\ previous # <<>>) => Result = previous[1]

(* A two-member union with exactly one member the absence type. *)
OptionalShape(t) ==
    /\ t.origin \in {"UnionType", "Union"}
    /\ Len(t.args) = 2
    /\ Cardinality({i \in 1..2 : t.args[i] = "NoneType"}) = 1

InnerType(t) == t.args[CHOOSE i \in 1..2 : t.args[i] # "NoneType"]

(* C6: a global field declared as a union of one type T and the absence type,
   in either order, is registered with the built-in optional behaviour (zero
   or one token, converted to T); with default None, ["--<name>", v] yields v
   and [] yields None. *)
C6_OptionalInEitherOrder ==
    \A i \in DOMAIN config.g :
        LET f == config.g[i]
        IN  (OptionalShape(f.annotation) /\ Built) =>
                /\ engine.error = "None"
                /\ engine.main[i].cls = "optional_action.aux"
                /\ engine.main[i].nargs = "?"
                /\ engine.main[i].type = InnerType(f.annotation)
                /\ (Returned /\ f.default = VNone /\ args = <<>>) =>
                        GlobalValue(f.name) = VNone
                /\ (Returned /\ f.default = VNone /\ Len(args) = 2
                        /\ args[1] = LongOption(f.name) /\ args[2] \notin DashTokens) =>
                        GlobalValue(f.name) = VStr(args[2])

(* The behaviour the dispatch order of the resolver's contract names. *)
TableEntry(key, modifiers) ==
    IF key \in DOMAIN modifiers THEN <<modifiers[key].cls>>
    ELSE IF key = "bool" THEN <<"BooleanOptionalAction">>
    ELSE IF key = "Multiple" THEN <<"MultipleAction">>
    ELSE <<>>

ContractBehaviour(t, modifiers) ==
    IF TableEntry(t.name, modifiers) # <<>> THEN TableEntry(t.name, modifiers)[1]
    ELSE IF t.origin # "None" /\ TableEntry(t.origin, modifiers) # <<>>
    THEN TableEntry(t.origin, modifiers)[1]
    ELSE IF OptionalShape(t) THEN "optional_action.aux"
    ELSE "_StoreAction"

(* C7: resolution is total and first match wins: exact declared type in the
   merged table, else the generic origin in the merged table, else optional
   for a union of a type and the absence type, else store. *)
C7_ResolutionOrder ==
    resolve_result # <<>> =>
        resolve_result[1].cls = ContractBehaviour(resolve_field.annotation, resolve_modifiers)

(* The fields of a schema the resolver sends to store. *)
FallsBackToStore(model, modifiers) ==
    {i \in DOMAIN model :
        /\ model[i].annotation # NoAnnotation
        /\ action_from_field_info(model[i], modifiers) = StoreAction}

(* C8: building the parser for a field that falls back to store succeeds:
   the converter is the declared type, or str when the declared type cannot
   be used as a converter; an argument that is not store or optional gets no
   converter. *)
C8_StoreConverterFallsBackToStr ==
    Built =>
        /\ FallsBackToStore(config.g, NoModifiers) # {} => engine.error # "ValueError"
        /\ engine.error = "None" =>
              \A i \in DOMAIN engine.main :
                 /\ i \in FallsBackToStore(config.g, NoModifiers) =>
                       engine.main[i].type =
                           IF Callable(config.g[i].annotation)
                           THEN config.g[i].annotation.name ELSE "str"
                 /\ engine.main[i].cls \notin {"_StoreAction", "optional_action.aux"} =>
                       engine.main[i].type = NoType

Dests(arguments) == {arguments[i].dest : i \in DOMAIN arguments}

(* C5: with a subcommand mapping, an invocation whose tokens name no command
   never reaches validation; one that returns was given exactly one command
   token, popped it from the raw mapping, and its second result is the
   validation, against that command's schema, of the raw mapping without the
   command key; the key reaches neither validation; without a subcommand
   mapping the second result is absent. *)
C5_CommandSelectsSubcommand ==
    /\ ~config.subcommands.given => subcommand_args = <<>> /\ sub_input = <<>>
    /\ (config.subcommands.given /\ \A i \in DOMAIN args : args[i] \notin DOMAIN Models) =>
            /\ ~Returned
            /\ pc \notin {"parsed", "validate_global"}
            /\ sub_input = <<>> /\ global_input = <<>>
    /\ sub_input # <<>> => "command" \notin DOMAIN sub_input[1]
    /\ global_input # <<>> => "command" \notin DOMAIN global_input[1]
    /\ (config.subcommands.given /\ Returned) =>
            /\ parser_name \in DOMAIN Models
            /\ \E i \in DOMAIN args : args[i] = parser_name
            /\ command = VStr(parser_name)
            /\ DOMAIN sub_input[1] = Dests(engine.main) \cup Dests(engine.subs[parser_name])
            /\ sub_input = global_input
            /\ subcommand_args =
                  <<model_validate(Models[parser_name], sub_input[1], heap).value>>
            /\ DOMAIN subcommand_args[1] = {Models[parser_name][i].name : i \in DOMAIN Models[parser_name]}

(* C5 happens: a global flag, then the command run with its required name. *)
C5_Witness ==
    /\ config = WithSubcommand
    /\ Returned
    /\ args = <<"--verbose", "run", "--name", "7">>
    /\ SubValue("name") = VStr("7")
    /\ SubValue("count") = VInt("1")
    /\ GlobalValue("verbose") = VBool(TRUE)

HasAbsentAnnotation ==
    \/ \E i \in DOMAIN config.g : config.g[i].annotation = NoAnnotation
    \/ \E c \in DOMAIN Models :
          \E i \in DOMAIN Models[c] : Models[c][i].annotation = NoAnnotation

(* C9: when a field of the global schema or of any configured subcommand
   schema has no declared type, every invocation ends in the build step with
   the configuration error: no token is consumed, no namespace is filled, no
   schema is validated and nothing is returned. *)
C9_AbsentAnnotationFailsAtBuild ==
    (HasAbsentAnnotation /\ calls >= 1) =>
        /\ pc \in {"build", "terminated"}
        /\ pc = "terminated" => outcome = "AssertionError"
        /\ ~Returned
        /\ pos = 1 /\ seen = {} /\ namespace = <<>> /\ subns = <<>>
        /\ sub_input = <<>> /\ global_input = <<>>
        /\ global_args = <<>> /\ subcommand_args = <<>>

(* C9 happens: the untyped field is in a subcommand the tokens do not name. *)
C9_Witness ==
    /\ config = AbsentAnnotationSubcommand
    /\ args = <<"--verbose", "run", "--name", "a">>
    /\ pc = "terminated"
    /\ outcome = "AssertionError"

(* The tokens of every occurrence of an option, in command-line order. *)
RECURSIVE OccurrenceTokens(_, _, _)
OccurrenceTokens(toks, opts, i) ==
    IF i > Len(toks) THEN <<>>
    ELSE IF toks[i] \in opts
    THEN LET n == PlainRun(toks, i + 1)
         IN  SubSeq(toks, i + 1, i + n) \o OccurrenceTokens(toks, opts, i + 1 + n)
    ELSE OccurrenceTokens(toks, opts, i + 1)

IsSuffix(xs, ys) ==
    /\ Len(xs) <= Len(ys)
    /\ SubSeq(ys, Len(ys) - Len(xs) + 1, Len(ys)) = xs

DeclaredEmpty(default) ==
    \/ default = PydanticUndefined
    \/ default.k = "ref" /\ DeclaredHeap[default.v[1]] = <<>>

(* C3: the value of a repeated-value field of the global schema is a
   sequence that ends with the tokens of all its occurrences in command-line
   order, and is exactly those tokens (none when the field is absent) when
   the field has no default or is declared with an empty default. *)
C3_MultipleAccumulatesInOrder ==
    Returned =>
        \A i \in DOMAIN config.g :
            LET f == config.g[i]
                given == OccurrenceTokens(args, engine.main[i].option_strings, 1)
            IN  f.annotation.origin = "Multiple" =>
                    /\ IsSuffix(given, GlobalValue(f.name).v)
                    /\ DeclaredEmpty(f.default) => GlobalValue(f.name).v = given

(* The declared default of a field as a validated value. *)
DeclaredDefault(f) == Validate(f.annotation, Deref(f.default, DeclaredHeap)).val

Omitted(argument) == \A j \in DOMAIN args : args[j] \notin argument.option_strings

RequiredIffNoDefault(model, arguments) ==
    \A i \in DOMAIN arguments :
        arguments[i].required <=> (model[i].default = PydanticUndefined)

(* The engine rejected the command line and no schema was validated. *)
RejectedByEngine ==
    /\ ~Returned
    /\ pc \notin {"parsed", "validate_global"}
    /\ sub_input = <<>> /\ global_input = <<>>
    /\ pc = "terminated" => outcome = "SystemExit"

(* C4: an argument is registered as required iff its field has no default;
   tokens that omit a field without default (of the global schema or of the
   selected subcommand) end in the engine's fatal exit before validation;
   an omitted field with a default has that default in the result. *)
C4_RequiredIffNoDefault ==
    (Built /\ engine.error = "None") =>
        /\ RequiredIffNoDefault(config.g, engine.main)
        /\ \A c \in DOMAIN engine.subs : RequiredIffNoDefault(Models[c], engine.subs[c])
        /\ \A i \in DOMAIN config.g :
              Omitted(engine.main[i]) =>
                 IF config.g[i].default = PydanticUndefined THEN RejectedByEngine
                 ELSE Returned =>
                        GlobalValue(config.g[i].name) = DeclaredDefault(config.g[i])
        /\ level \in {"sub", "back"} =>
              \A i \in DOMAIN Models[parser_name] :
                 LET f == Models[parser_name][i]
                 IN  Omitted(engine.subs[parser_name][i]) =>
                        IF f.default = PydanticUndefined THEN RejectedByEngine
                        ELSE Returned => SubValue(f.name) = DeclaredDefault(f)

(* What a flag or single-value field is worth given only its own tokens. *)
ValueFrom(field, segment) ==
    LET opts == {LongOption(field.name), NegatedOption(field.name)}
        occ == {i \in DOMAIN segment : segment[i] \in opts}
        last == CHOOSE i \in occ : \A j \in occ : j <= i
    IN  IF occ = {} THEN field.default
        ELSE IF field.annotation = TBool THEN VBool(segment[last] = LongOption(field.name))
        ELSE IF field.annotation = TInt THEN VInt(segment[last + 1])
        ELSE VStr(segment[last + 1])

CommandIndex == CHOOSE i \in DOMAIN args : args[i] = parser_name /\ level # "main"

(* C10: when the global schema and the selected subcommand's schema declare
   a field of the same name, the global result's value comes from the tokens
   before the command and the global default, the subcommand result's value
   from the tokens after it and the subcommand's default. *)
C10_GlobalAndSubcommandIndependent ==
    (Returned /\ config = SharedNames) =>
        \A i \in DOMAIN config.g : \A j \in DOMAIN Models[parser_name] :
            LET gf == config.g[i]
                sf == Models[parser_name][j]
            IN  gf.name = sf.name =>
                    /\ GlobalValue(gf.name) =
                          ValueFrom(gf, SubSeq(args, 1, CommandIndex - 1))
                    /\ SubValue(sf.name) =
                          ValueFrom(sf, SubSeq(args, CommandIndex + 1, Len(args)))
====
